---- MODULE Spec2Model ----
(***************************************************************************)
(* Model of the process-orchestration core of the Universal Multi-Language *)
(* Compiler: src/src/backend/compiler_manager.py (CompilerManager) and the *)
(* input rewriting of src/src/main.py (UMLCApp._create_input_version).     *)
(*                                                                         *)
(* Text is modelled as a sequence of tokens (short strings).  A path is    *)
(* the token sequence of its string form, "/" being the separator token   *)
(* and "." the suffix dot, so that str(Path), Path.parent, Path.name and   *)
(* Path.stem are computed, not assumed.                                    *)
(***************************************************************************)
EXTENDS Integers, Sequences, FiniteSets, TLC

\* ------------------------------------------------------------------ bounds
\* lines a child process writes to one of its output streams
MaxLines == 1
\* temp directory names tempfile.mkdtemp chooses among
MaxTemp == 4
\* lines the program of an interpreted run writes to its two streams together
MaxStreamLines == 2

\* --------------------------------------------------------------- constants
\* process.wait(timeout=10)
TimeoutSeconds == 10
\* the return code Popen reports for a child ended by process.kill() (SIGKILL)
KilledCode == 0 - 9

\* ------------------------------------------------------------ text helpers
SLASH == "/"
DOT == "."

RECURSIVE LastIndexOf(_, _, _)
\* str.rfind for one token: the greatest i <= n with s[i] = t, or 0
LastIndexOf(s, t, n) ==
    IF n = 0 THEN 0
    ELSE IF s[n] = t THEN n ELSE LastIndexOf(s, t, n - 1)

\* PurePath.name: the last component of the path
PathName(p) ==
    LET i == LastIndexOf(p, SLASH, Len(p))
    IN  SubSeq(p, i + 1, Len(p))

\* PurePath.parent: the path without its last component
PathParent(p) ==
    LET i == LastIndexOf(p, SLASH, Len(p))
    IN  IF i = 0 THEN <<DOT>>
        ELSE IF i = 1 THEN <<SLASH>>
        ELSE SubSeq(p, 1, i - 1)

\* PurePath.stem: the name without its last suffix; a leading dot and a
\* trailing dot do not start a suffix
PathStem(p) ==
    LET name == PathName(p)
        i == LastIndexOf(name, DOT, Len(name))
    IN  IF 1 < i /\ i < Len(name) THEN SubSeq(name, 1, i - 1) ELSE name

\* Path / name
PathJoin(dir, name) ==
    IF dir = <<SLASH>> THEN dir \o name ELSE dir \o <<SLASH>> \o name

RECURSIVE StripLeft(_)
StripLeft(s) ==
    IF s # <<>> /\ Head(s) = " " THEN StripLeft(Tail(s)) ELSE s

RECURSIVE StripRight(_)
StripRight(s) ==
    IF s # <<>> /\ s[Len(s)] = " " THEN StripRight(SubSeq(s, 1, Len(s) - 1)) ELSE s

\* str.strip() on a line whose only whitespace token is " "
Strip(s) == StripRight(StripLeft(s))

RECURSIVE JoinLines(_, _)
\* sep.join(lines)
JoinLines(sep, lines) ==
    IF lines = <<>> THEN <<>>
    ELSE IF Len(lines) = 1 THEN lines[1]
    ELSE lines[1] \o <<sep>> \o JoinLines(sep, Tail(lines))

\* str(return_code)
DecimalText(n) ==
    IF n < 0 THEN "-" \o ToString(0 - n) ELSE ToString(n)

\* ---------------------------------------------------------------- registry
Languages == {"python", "c", "cpp", "java", "javascript"}

\* sys.executable
PythonExe == "python3"

\* CompilerManager.__init__: self.supported_languages; a compile_cmd of None
\* is the empty template
NoCmd == <<>>
InitialRegistry ==
    [l \in Languages |->
        CASE l = "python" ->
               [extension |-> <<DOT, "py">>, compile_cmd |-> NoCmd,
                run_cmd |-> <<<<PythonExe>>, <<"{file}">>>>, temp_dir |-> TRUE]
          [] l = "c" ->
               [extension |-> <<DOT, "c">>,
                compile_cmd |-> <<<<"gcc">>, <<"{file}">>, <<"-o">>, <<"{output}">>>>,
                run_cmd |-> <<<<"{output}">>>>, temp_dir |-> TRUE]
          [] l = "cpp" ->
               [extension |-> <<DOT, "cpp">>,
                compile_cmd |-> <<<<"g++">>, <<"{file}">>, <<"-o">>, <<"{output}">>>>,
                run_cmd |-> <<<<"{output}">>>>, temp_dir |-> TRUE]
          [] l = "java" ->
               [extension |-> <<DOT, "java">>,
                compile_cmd |-> <<<<"javac">>, <<"{file}">>>>,
                run_cmd |-> <<<<"java">>, <<"{class_name}">>>>, temp_dir |-> FALSE]
          [] l = "javascript" ->
               [extension |-> <<DOT, "js">>, compile_cmd |-> NoCmd,
                run_cmd |-> <<<<"node">>, <<"{file}">>>>, temp_dir |-> TRUE]]

\* part.replace(placeholder, value) for a template argument that is the
\* placeholder alone or does not hold it
ReplaceArg(part, placeholder, value) ==
    IF part = <<placeholder>> THEN value ELSE part

\* ------------------------------------------------------------- file system
HomeDir == <<SLASH, "home">>

\* the k-th temp directory name
TmpDir(k) == <<SLASH, "tmp" \o ToString(k)>>

\* MkDtemp with a slip: a fixed directory name
MkDtempFixed(f) == <<SLASH, "tmp1">>

\* tempfile.mkdtemp: a name that no existing directory has; the names are
\* interchangeable, and the first unused one is taken
MkDtemp(f) ==
    TmpDir(CHOOSE k \in 1..MaxTemp :
               /\ TmpDir(k) \notin f.dirs
               /\ \A j \in 1..(k - 1) : TmpDir(j) \in f.dirs)

\* the source files of the user: the path and the text of each
JavaSource == PathJoin(HomeDir, <<"Main", DOT, "java">>)
InputSource == PathJoin(HomeDir, <<"a", DOT, "b", DOT, "py">>)
MissingSource == PathJoin(HomeDir, <<DOT, "c">>)
OrphanSource == <<SLASH, "gone", SLASH, "x", DOT, "js">>
SourcePaths == {JavaSource, InputSource, MissingSource, OrphanSource}

\* the text of a source file, a token sequence in which "input(" is one token
SourceText(path) ==
    IF path = InputSource THEN <<"name = ", "input(", ")">> ELSE <<"print(", ")">>

InitialFiles == {JavaSource, InputSource}

\* shutil.rmtree of a TemporaryDirectory at the end of its with block
RemoveTree(f, dir) ==
    [dirs |-> f.dirs \ {dir},
     files |-> {p \in f.files : PathParent(p) # dir}]

\* ------------------------------------------------------------------- state
VARIABLES
    supported_languages, \* CompilerManager.supported_languages
    fs,                  \* directories and files that exist
    pc,                  \* position of the calling thread
    req,                 \* the call in progress (or the last one)
    owned,               \* temp directories of the with blocks now open, innermost last
    created,             \* temp directories the call in progress has created
    execs,               \* the executor invocations of the call, in order
    sink,                \* messages the output display has received
    result,              \* the outcome the last call returned
    app,                 \* UMLCApp: a run of the editor's text with supplied input
    parked               \* the call of a second calling thread, while the first runs

core == <<supported_languages, fs, pc, req, owned, created, execs, sink, result>>
vars == <<core, app, parked>>

\* the application before the user asks for a run with input
AppIdle == [pc |-> "editor"]

NoReq == [op |-> "none", lang |-> "none", file |-> <<>>, display |-> FALSE]
NoResult == [pending |-> TRUE]

\* what a calling thread holds of its call: its position, its request, its
\* locals and the display it was given
Context ==
    [pc |-> pc, req |-> req, owned |-> owned, created |-> created,
     execs |-> execs, sink |-> sink, result |-> result]

\* a calling thread that has made no call
IdleContext ==
    [pc |-> "idle", req |-> NoReq, owned |-> <<>>, created |-> {},
     execs |-> <<>>, sink |-> <<>>, result |-> NoResult]

Init ==
    /\ parked = IdleContext
    /\ supported_languages = InitialRegistry
    /\ fs = [dirs |-> {HomeDir}, files |-> InitialFiles]
    /\ pc = "idle"
    /\ req = NoReq
    /\ owned = <<>>
    /\ created = {}
    /\ execs = <<>>
    /\ sink = <<>>
    /\ result = NoResult
    /\ app = AppIdle

\* ------------------------------------------------------------- the inputs
LanguageIds == Languages \cup {"ruby"}

\* a line of bytes that are not valid UTF-8: the text-mode readline raises
\* UnicodeDecodeError on it
UndecodableLine == <<"\\xff">>

\* lines a child may write: one with surrounding blanks, one blank
RawLines == {<<" ", "a", " ">>, <<" ">>}

\* lines the program of an interpreted run may write
StreamLines == {<<" ", "boom">>, <<"b", " ">>, <<" ">>, UndecodableLine}

\* exit statuses a child may end with of its own accord
ExitCodes == {0, 1}

\* ----------------------------------------------------------- the executor
Cur == Len(execs)

\* the record of one executor invocation before its Popen call
NewExec(step, kind, cmd, cwd, has_input) ==
    [step |-> step, kind |-> kind, cmd |-> cmd, cwd |-> cwd,
     has_input |-> has_input,
     state |-> "Pending",
     spawned |-> FALSE, cwd_existed |-> FALSE, exe_existed |-> FALSE,
     loaded |-> FALSE,
     stdin |-> "none", alive |-> FALSE, blocked |-> FALSE, returncode |-> 0,
     reads |-> {},
     wrote_out |-> <<>>, wrote_err |-> <<>>,
     pipe_out |-> <<>>, pipe_err |-> <<>>,
     stdout_thread |-> "new", stderr_thread |-> "new",
     output_lines |-> <<>>, error_lines |-> <<>>,
     outcome |-> NoResult]

\* 'input(' in content
HasInputCall(content) == \E i \in DOMAIN content : content[i] = "input("

\* the artifact a compiler writes when it succeeds: javac puts Unit.class
\* next to the source it was given, gcc and g++ write the path after -o
Artifact(cmd) ==
    IF cmd[1] = <<"javac">>
    THEN PathJoin(PathParent(cmd[2]), PathStem(cmd[2]) \o <<DOT, "class">>)
    ELSE cmd[Len(cmd)]

\* what `java Unit` loads: Unit.class in the working directory
ClassFile(cwd, unit) == PathJoin(cwd, unit \o <<DOT, "class">>)

\* whether the program of this invocation gets to run in file system f: the
\* java launcher needs the class file of the unit
Loads(e, f) ==
    e.cmd[1] = <<"java">> => ClassFile(e.cwd, e.cmd[2]) \in f.files

\* whether the child of this invocation can end with status 0 in file system
\* f: a compiler needs the source it was given and the directory it writes
\* its artifact to, node needs the script it was given
CanSucceed(e, f) ==
    /\ e.step = "compile" =>
           (e.cmd[2] \in f.files /\ PathParent(Artifact(e.cmd)) \in f.dirs)
    /\ e.cmd[1] = <<"node">> => e.cmd[2] \in f.files

\* SuccessOutcome with a slip: the two captured texts change places
SuccessOutcomeSwapped(e) ==
    [success |-> TRUE,
     output |-> JoinLines("\n", e.error_lines),
     error_output |-> JoinLines("\n", e.output_lines)]

\* the outcome dictionaries
SuccessOutcome(e) ==
    [success |-> TRUE,
     output |-> JoinLines("\n", e.output_lines),
     error_output |-> JoinLines("\n", e.error_lines)]

\* FailedOutcome with a slip: the lines of stderr are left out
FailedOutcomeWithoutStderr(e, return_code) ==
    [success |-> FALSE,
     error |-> <<"Command failed with return code ", DecimalText(return_code)>>,
     output |-> JoinLines("\n", e.output_lines),
     error_output |-> <<>>]

\* the outcome of a child that ended with a nonzero return_code
FailedOutcome(e, return_code) ==
    [success |-> FALSE,
     error |-> <<"Command failed with return code ", DecimalText(return_code)>>
               \o (IF e.error_lines # <<>>
                   THEN <<"\nError output: ">> \o JoinLines(" ", e.error_lines)
                   ELSE <<>>),
     output |-> JoinLines("\n", e.output_lines),
     error_output |-> JoinLines("\n", e.error_lines)]

\* TimedOutOutcome with a slip: the text is put under the key of the
\* success outcomes
TimedOutOutcomeAsMessage ==
    [success |-> FALSE,
     message |-> <<"Program execution timed out (", DecimalText(TimeoutSeconds),
                   " seconds)">>]

TimedOutOutcome ==
    [success |-> FALSE,
     error |-> <<"Program execution timed out (", DecimalText(TimeoutSeconds),
                 " seconds)">>]

NotFoundOutcome(filename) ==
    [success |-> FALSE, error |-> <<"Command not found: ">> \o filename]

ExecutionErrorOutcome ==
    [success |-> FALSE, error |-> <<"Execution error: ", "OSError">>]

IsPath(arg) == \E i \in DOMAIN arg : arg[i] = SLASH

\* the standard input Popen gives the child
PopenStdin(e) ==
    IF e.kind = "pyi" /\ e.has_input THEN "pipe" ELSE "inherited"

\* AfterPopen with a slip: the close of the input pipe is left out
AfterPopenNoClose(e) == "start_threads"

\* where the calling thread goes once Popen has returned the process: to
\* process.stdin.close() when an input call was detected
AfterPopen(e) ==
    IF e.kind = "pyi" /\ e.has_input THEN "close_stdin" ELSE "start_threads"

\* subprocess.Popen(cmd, cwd=...): the child starts, or Popen raises
\* FileNotFoundError (the working directory or the command is missing;
\* `installed` says whether a bare command name is found on PATH) or
\* another OSError (`oserror`)
Popen(installed, oserror) ==
    /\ pc = "spawn"
    /\ LET e == execs[Cur]
           cwd_ok == e.cwd \in fs.dirs
           exe_ok == IF IsPath(e.cmd[1]) THEN e.cmd[1] \in fs.files ELSE installed
           seen == [e EXCEPT !.cwd_existed = cwd_ok, !.exe_existed = exe_ok]
       IN  /\ IsPath(e.cmd[1]) => installed
           /\ (~cwd_ok \/ ~exe_ok) => ~oserror
           /\ IF ~cwd_ok
              THEN /\ execs' = [execs EXCEPT ![Cur] =
                          [seen EXCEPT !.state = "SpawnFailed",
                                       !.outcome = NotFoundOutcome(e.cwd)]]
                   /\ pc' = "after"
              ELSE IF ~exe_ok
              THEN /\ execs' = [execs EXCEPT ![Cur] =
                          [seen EXCEPT !.state = "SpawnFailed",
                                       !.outcome = NotFoundOutcome(e.cmd[1])]]
                   /\ pc' = "after"
              ELSE IF oserror
              THEN /\ execs' = [execs EXCEPT ![Cur] =
                          [seen EXCEPT !.state = "SpawnFailed",
                                       !.outcome = ExecutionErrorOutcome]]
                   /\ pc' = "after"
              ELSE /\ execs' = [execs EXCEPT ![Cur] =
                          [seen EXCEPT !.state = "Spawning", !.spawned = TRUE,
                                       !.loaded = Loads(e, fs),
                                       !.alive = TRUE, !.stdin = PopenStdin(e)]]
                   /\ pc' = AfterPopen(e)
    /\ UNCHANGED <<app, parked, supported_languages, fs, req, owned, created,
                   sink, result>>

\* process.stdin.close(): a child blocked in a read of the pipe gets end-of-input
CloseStdin ==
    /\ pc = "close_stdin"
    /\ LET e == execs[Cur]
       IN  execs' = [execs EXCEPT ![Cur] =
               [e EXCEPT !.stdin = "closed",
                         !.blocked = FALSE,
                         !.reads = IF e.blocked THEN @ \cup {"EOF"} ELSE @]]
    /\ pc' = "start_threads"
    /\ UNCHANGED <<app, parked, supported_languages, fs, req, owned, created,
                   sink, result>>

\* stdout_thread.start(); stderr_thread.start()
StartThreads ==
    /\ pc = "start_threads"
    /\ execs' = [execs EXCEPT ![Cur] =
           [@ EXCEPT !.state = "Draining",
                     !.stdout_thread = "running", !.stderr_thread = "running"]]
    /\ pc' = "wait"
    /\ UNCHANGED <<app, parked, supported_languages, fs, req, owned, created,
                   sink, result>>

\* WaitHasTimeout with a slip: only the branch for a detected input call
\* waits with a timeout
WaitHasTimeoutWithInput(e) == e.kind = "pyi" /\ e.has_input

\* whether the wait of this invocation carries a timeout
WaitHasTimeout(e) == e.kind = "pyi"

\* WaitReturns with a slip: the calling thread looks at the child once and
\* goes on, whether it has ended or not
WaitReturnsEarly ==
    /\ pc = "wait"
    /\ pc' = "join_stdout"
    /\ UNCHANGED <<app, parked, supported_languages, fs, req, owned, created,
                   execs, sink, result>>

\* process.wait(...) returns the exit status of a child that has ended
WaitReturns ==
    /\ pc = "wait"
    /\ ~execs[Cur].alive
    /\ pc' = "join_stdout"
    /\ UNCHANGED <<app, parked, supported_languages, fs, req, owned, created,
                   execs, sink, result>>

\* WaitTimeout with a slip: the except branch kills the child and does not
\* return, so the joins and the assembling of the outcome follow
WaitTimeoutWithoutReturn ==
    /\ pc = "wait"
    /\ WaitHasTimeout(execs[Cur])
    /\ execs[Cur].alive
    /\ execs' = [execs EXCEPT ![Cur] =
           [@ EXCEPT !.alive = FALSE, !.blocked = FALSE,
                     !.returncode = KilledCode,
                     !.state = "TimedOut", !.outcome = TimedOutOutcome]]
    /\ pc' = "join_stdout"
    /\ UNCHANGED <<app, parked, supported_languages, fs, req, owned, created,
                   sink, result>>

\* process.wait(timeout=10) raises TimeoutExpired while the child still runs:
\* process.kill(), and the timed-out outcome is returned at once
WaitTimeout ==
    /\ pc = "wait"
    /\ WaitHasTimeout(execs[Cur])
    /\ execs[Cur].alive
    /\ execs' = [execs EXCEPT ![Cur] =
           [@ EXCEPT !.alive = FALSE, !.blocked = FALSE,
                     !.returncode = KilledCode,
                     !.state = "TimedOut", !.outcome = TimedOutOutcome]]
    /\ pc' = "after"
    /\ UNCHANGED <<app, parked, supported_languages, fs, req, owned, created,
                   sink, result>>

\* JoinStdout with a slip: the join has no timeout
JoinStdoutForever ==
    /\ pc = "join_stdout"
    /\ execs[Cur].stdout_thread \in {"done", "failed"}
    /\ pc' = "join_stderr"
    /\ UNCHANGED <<app, parked, supported_languages, fs, req, owned, created,
                   execs, sink, result>>

\* stdout_thread.join(timeout=1.0) returns: the thread has ended or the
\* second has passed
JoinStdout ==
    /\ pc = "join_stdout"
    /\ pc' = "join_stderr"
    /\ UNCHANGED <<app, parked, supported_languages, fs, req, owned, created,
                   execs, sink, result>>

\* ExitOutcome with a slip: a child that wrote to stderr counts as failed
ExitOutcomeStderrFails(e, return_code) ==
    IF return_code = 0 /\ e.error_lines = <<>>
    THEN SuccessOutcome(e) ELSE FailedOutcome(e, return_code)

\* ExitOutcome with a slip: the return code is not looked at
ExitOutcomeAlwaysSuccess(e, return_code) == SuccessOutcome(e)

\* the outcome of a child that has ended with return_code
ExitOutcome(e, return_code) ==
    IF return_code = 0 THEN SuccessOutcome(e) ELSE FailedOutcome(e, return_code)

\* stderr_thread.join(timeout=1.0) returns, and the outcome is assembled
\* from the return code and the two line lists
JoinStderr ==
    /\ pc = "join_stderr"
    /\ LET e == execs[Cur]
       IN  execs' = [execs EXCEPT ![Cur] =
               [e EXCEPT !.state = "Completed",
                         !.outcome = ExitOutcome(e, e.returncode)]]
    /\ pc' = "after"
    /\ UNCHANGED <<app, parked, supported_languages, fs, req, owned, created,
                   sink, result>>

\* ------------------------------------------------------ the child process
\* the line the java launcher writes when it cannot load the class
LauncherError == <<"Error: Could not find or load main class">>

\* the child writes one line to its standard output or its standard error;
\* a java launcher that found no class writes only its error
ChildWrite(i, is_error, line) ==
    /\ i \in DOMAIN execs
    /\ LET e == execs[i]
       IN  /\ e.alive /\ ~e.blocked
           /\ IF e.loaded THEN line \in RawLines
              ELSE is_error /\ line = LauncherError
           /\ IF is_error
              THEN /\ Len(e.wrote_err) < MaxLines
                   /\ execs' = [execs EXCEPT ![i] =
                          [e EXCEPT !.wrote_err = Append(@, line),
                                    !.pipe_err = Append(@, line)]]
              ELSE /\ Len(e.wrote_out) < MaxLines
                   /\ execs' = [execs EXCEPT ![i] =
                          [e EXCEPT !.wrote_out = Append(@, line),
                                    !.pipe_out = Append(@, line)]]
    /\ UNCHANGED <<app, parked, supported_languages, fs, pc, req, owned,
                   created, sink, result>>

\* the program of an interpreted run writes one line to its standard output
\* or its standard error
ChildWriteLine(i, is_error, line) ==
    /\ i \in DOMAIN execs
    /\ LET e == execs[i]
       IN  /\ e.alive /\ ~e.blocked
           /\ e.step = "run"
           /\ line \in StreamLines
           /\ Len(e.wrote_out) + Len(e.wrote_err) < MaxStreamLines
           /\ execs' = [execs EXCEPT ![i] =
                  IF is_error
                  THEN [e EXCEPT !.wrote_err = Append(@, line),
                                 !.pipe_err = Append(@, line)]
                  ELSE [e EXCEPT !.wrote_out = Append(@, line),
                                 !.pipe_out = Append(@, line)]]
    /\ UNCHANGED <<app, parked, supported_languages, fs, pc, req, owned,
                   created, sink, result>>

\* the child reads its standard input: a closed pipe gives end-of-input, an
\* open pipe nobody writes to blocks, the inherited input of the application
\* blocks until the application's own input holds something.  `reads` is the
\* set of results the child's reads have had
ChildRead(i) ==
    /\ i \in DOMAIN execs
    /\ LET e == execs[i]
       IN  /\ e.alive /\ ~e.blocked /\ e.loaded
           /\ IF e.stdin = "closed"
              THEN /\ "EOF" \notin e.reads
                   /\ execs' = [execs EXCEPT ![i] =
                          [e EXCEPT !.reads = @ \cup {"EOF"}]]
              ELSE /\ e.reads = {}
                   /\ execs' = [execs EXCEPT ![i] = [e EXCEPT !.blocked = TRUE]]
    /\ UNCHANGED <<app, parked, supported_languages, fs, pc, req, owned,
                   created, sink, result>>

\* input arrives on the application's own standard input while a child that
\* inherited it is blocked reading
InheritedInputArrives(i) ==
    /\ i \in DOMAIN execs
    /\ LET e == execs[i]
       IN  /\ e.alive /\ e.blocked /\ e.stdin = "inherited"
           /\ execs' = [execs EXCEPT ![i] =
                  [e EXCEPT !.blocked = FALSE, !.reads = @ \cup {"inherited"}]]
    /\ UNCHANGED <<app, parked, supported_languages, fs, pc, req, owned,
                   created, sink, result>>

\* the child ends of its own accord with status code; a compiler that ends
\* with status 0 has written its artifact
ChildExit(i, code) ==
    /\ i \in DOMAIN execs
    /\ LET e == execs[i]
       IN  /\ e.alive /\ ~e.blocked
           /\ IF e.loaded THEN code = 0 => CanSucceed(e, fs) ELSE code = 1
           /\ execs' = [execs EXCEPT ![i] =
                  [e EXCEPT !.alive = FALSE, !.returncode = code]]
           /\ fs' = IF code = 0 /\ e.step = "compile"
                    THEN [fs EXCEPT !.files = @ \cup {Artifact(e.cmd)}]
                    ELSE fs
    /\ UNCHANGED <<app, parked, supported_languages, pc, req, owned, created,
                   sink, result>>

\* ------------------------------------------------------ the reader threads
\* Show with a slip: every message is shown as an output line
ShowAsOutput(log, kind, text) ==
    IF req.display THEN Append(log, [kind |-> "output", text |-> text]) ELSE log

\* Show with a slip: the display puts the newest message first
ShowFirst(log, kind, text) ==
    IF req.display THEN <<[kind |-> kind, text |-> text]>> \o log ELSE log

\* one message to the output display (None: no message)
Show(log, kind, text) ==
    IF req.display THEN Append(log, [kind |-> kind, text |-> text]) ELSE log

\* read_output, one turn of its loop: readline() gives the next line, which
\* is stripped and, unless empty, appended to the list and shown; at
\* end-of-file the thread ends; an exception of readline ends the thread too,
\* and nobody hears of it
read_output(i, is_error) ==
    /\ i \in DOMAIN execs
    /\ LET e == execs[i]
           pipe == IF is_error THEN e.pipe_err ELSE e.pipe_out
           line == Strip(Head(pipe))
       IN  /\ (IF is_error THEN e.stderr_thread ELSE e.stdout_thread) = "running"
           /\ IF pipe # <<>> /\ Head(pipe) = UndecodableLine
              THEN /\ execs' = [execs EXCEPT ![i] =
                          IF is_error
                          THEN [e EXCEPT !.stderr_thread = "failed"]
                          ELSE [e EXCEPT !.stdout_thread = "failed"]]
                   /\ sink' = sink
              ELSE IF pipe # <<>>
              THEN /\ execs' = [execs EXCEPT ![i] =
                          IF is_error
                          THEN [e EXCEPT !.pipe_err = Tail(@),
                                         !.error_lines =
                                             IF line # <<>> THEN Append(@, line) ELSE @]
                          ELSE [e EXCEPT !.pipe_out = Tail(@),
                                         !.output_lines =
                                             IF line # <<>> THEN Append(@, line) ELSE @]]
                   /\ sink' = IF line # <<>>
                              THEN Show(sink, IF is_error THEN "error" ELSE "output", line)
                              ELSE sink
              ELSE /\ ~e.alive
                   /\ execs' = [execs EXCEPT ![i] =
                          IF is_error
                          THEN [e EXCEPT !.stderr_thread = "done"]
                          ELSE [e EXCEPT !.stdout_thread = "done"]]
                   /\ sink' = sink
    /\ UNCHANGED <<app, parked, supported_languages, fs, pc, req, owned,
                   created, result>>

\* ------------------------------------------------------------ the drivers
\* a call has returned its outcome
Returned == pc = "returned"

\* UnsupportedOutcome with a slip: the outcome does not name the language
UnsupportedOutcomeUnnamed(language) ==
    [success |-> FALSE, error |-> <<"Unsupported language">>]

\* the outcome for a language that is not in supported_languages
UnsupportedOutcome(language) ==
    [success |-> FALSE, error |-> <<"Unsupported language: ", language>>]

\* NoCompilationOutcome with a slip: the interpreted branch reports a failure
NoCompilationOutcomeFailed ==
    [success |-> FALSE,
     error |-> <<"No compilation needed for interpreted language">>]

NoCompilationOutcome ==
    [success |-> TRUE,
     message |-> <<"No compilation needed for interpreted language">>]

\* the except clause of compile_code / run_code
CaughtOutcome(op, message) ==
    [success |-> FALSE,
     error |-> <<IF op = "compile" THEN "Compilation failed: "
                 ELSE "Execution failed: ", message>>]

RECURSIVE RemoveTrees(_, _)
\* the with blocks that are open are left, innermost first
RemoveTrees(f, dirs) ==
    IF dirs = <<>> THEN f
    ELSE RemoveTrees(RemoveTree(f, dirs[Len(dirs)]), SubSeq(dirs, 1, Len(dirs) - 1))

\* tempfile.TemporaryDirectory().__enter__
MakeTemp(f, dir) == [f EXCEPT !.dirs = @ \cup {dir}]

\* shutil.copy2(src, dst)
CopyFile(f, dst) == [f EXCEPT !.files = @ \cup {dst}]

\* Raise with a slip: the temp directories are made without a with block, and
\* an exception leaves them behind
RaiseLeaking(f, message) ==
    /\ fs' = f
    /\ owned' = <<>>
    /\ result' = CaughtOutcome(req.op, message)
    /\ pc' = "returned"

\* an exception leaves every open with block and is caught by the public
\* operation, which returns a failure outcome
Raise(f, message) ==
    /\ fs' = RemoveTrees(f, owned)
    /\ owned' = <<>>
    /\ result' = CaughtOutcome(req.op, message)
    /\ pc' = "returned"

\* the call returns outcome: the with blocks still open are left
Return(f, outcome) ==
    /\ fs' = RemoveTrees(f, owned)
    /\ owned' = <<>>
    /\ result' = outcome
    /\ pc' = "returned"

\* compile_code(file_path, language, output_display)
compile_code(file_path, language, output_display) ==
    /\ pc = "idle"
    /\ req' = [op |-> "compile", lang |-> language, file |-> file_path,
               display |-> output_display]
    /\ IF language \notin DOMAIN supported_languages
       THEN /\ result' = UnsupportedOutcome(language)
            /\ pc' = "returned"
       ELSE IF language = "java"
       THEN /\ result' = NoResult
            /\ pc' = "_compile_java"
       ELSE IF language \in {"c", "cpp"}
       THEN /\ result' = NoResult
            /\ pc' = "_compile_compiled"
       ELSE /\ result' = NoCompilationOutcome
            /\ pc' = "returned"
    /\ UNCHANGED <<app, parked, supported_languages, fs, owned, created,
                   execs, sink>>

\* run_code(file_path, language, output_display)
run_code(file_path, language, output_display) ==
    /\ pc = "idle"
    /\ req' = [op |-> "run", lang |-> language, file |-> file_path,
               display |-> output_display]
    /\ IF language \notin DOMAIN supported_languages
       THEN /\ result' = UnsupportedOutcome(language)
            /\ pc' = "returned"
       ELSE /\ result' = NoResult
            /\ pc' = IF language = "java" THEN "_run_java"
                     ELSE IF language \in {"c", "cpp"} THEN "_run_compiled"
                     ELSE "_run_interpreted"
    /\ UNCHANGED <<app, parked, supported_languages, fs, owned, created,
                   execs, sink>>

\* the file _compile_java / _compile_compiled is called with: the copy in the
\* temp directory of _run_java, or the file of the call
CompileArg ==
    IF req.op = "run" /\ req.lang = "java"
    THEN PathJoin(owned[1], PathName(req.file))
    ELSE req.file

\* UnitName with a slip: the suffix is kept
UnitNameWithSuffix(file_path) == PathName(file_path)

\* the unit name _run_java runs: file_name = Path(file_path).stem
UnitName(file_path) == PathStem(file_path)

\* _run_java up to its call of _compile_java: a temp directory, and the
\* source copied into it
_run_java(copy_ok) ==
    /\ pc = "_run_java"
    /\ LET temp_dir == MkDtemp(fs)
           java_file == PathJoin(temp_dir, PathName(req.file))
       IN  /\ copy_ok => req.file \in fs.files
           /\ created' = created \cup {temp_dir}
           /\ IF copy_ok
              THEN /\ fs' = CopyFile(MakeTemp(fs, temp_dir), java_file)
                   /\ owned' = Append(owned, temp_dir)
                   /\ pc' = "_compile_java"
                   /\ result' = result
              ELSE Raise(fs, "copy2 failed")
    /\ UNCHANGED <<app, parked, supported_languages, req, execs, sink>>

\* _compile_java up to its call of _execute_command: a temp directory, the
\* source copied into it, javac on the copy
_compile_java(copy_ok) ==
    /\ pc = "_compile_java"
    /\ LET file_path == CompileArg
           temp_dir == MkDtemp(fs)
           java_file == PathJoin(temp_dir, PathName(file_path))
           compile_cmd == <<<<"javac">>, java_file>>
       IN  /\ copy_ok => file_path \in fs.files
           /\ created' = created \cup {temp_dir}
           /\ IF copy_ok
              THEN /\ fs' = CopyFile(MakeTemp(fs, temp_dir), java_file)
                   /\ owned' = Append(owned, temp_dir)
                   /\ execs' = Append(execs,
                          NewExec("compile", "exec", compile_cmd, temp_dir, FALSE))
                   /\ pc' = "spawn"
                   /\ result' = result
              ELSE /\ execs' = execs
                   /\ Raise(fs, "copy2 failed")
    /\ UNCHANGED <<app, parked, supported_languages, req, sink>>

\* _run_compiled up to its call of _compile_compiled
_run_compiled ==
    /\ pc = "_run_compiled"
    /\ pc' = "_compile_compiled"
    /\ UNCHANGED <<app, parked, supported_languages, fs, req, owned, created,
                   execs, sink, result>>

\* the compile command of c / cpp: {file} and {output} replaced in a copy of
\* the template
ResolveCompile(template, file_path, output_path) ==
    [i \in DOMAIN template |->
        IF template[i] = <<"{file}">>
        THEN ReplaceArg(template[i], "{file}", file_path)
        ELSE ReplaceArg(template[i], "{output}", output_path)]

\* _compile_compiled up to its call of _execute_command
\* language.upper() for the languages that are compiled to an executable
Upper(language) ==
    IF language = "c" THEN "C"
    ELSE IF language = "cpp" THEN "CPP"
    ELSE language

\* AfterResolve with a slip: the template is not copied, so the item
\* assignments of the resolving loop go to the stored list
AfterResolveInPlace(registry, language, key, resolved) ==
    [registry EXCEPT ![language][key] = resolved]

\* the registry after the loop that resolves a command template: the loop
\* assigns to the items of template.copy(), a list of its own, so the stored
\* template keeps its placeholders
AfterResolve(registry, language, key, resolved) == registry

\* _compile_compiled with a slip: the temp directory is created, but the
\* compiler is run next to the source and writes its output there
_compile_compiledInPlace ==
    /\ pc = "_compile_compiled"
    /\ LET file_path == CompileArg
           output_name == PathStem(file_path)
           temp_dir == MkDtemp(fs)
           compile_cmd == ResolveCompile(supported_languages[req.lang].compile_cmd,
                                         file_path,
                                         PathJoin(PathParent(file_path), output_name))
       IN  /\ created' = created \cup {temp_dir}
           /\ fs' = MakeTemp(fs, temp_dir)
           /\ owned' = Append(owned, temp_dir)
           /\ execs' = Append(execs,
                  NewExec("compile", "exec", compile_cmd,
                          PathParent(file_path), FALSE))
           /\ pc' = "spawn"
    /\ UNCHANGED <<app, parked, supported_languages, req, sink, result>>

_compile_compiled ==
    /\ pc = "_compile_compiled"
    /\ LET file_path == CompileArg
           output_name == PathStem(file_path)
           temp_dir == MkDtemp(fs)
           compile_cmd == ResolveCompile(supported_languages[req.lang].compile_cmd,
                                         file_path, PathJoin(temp_dir, output_name))
       IN           /\ created' = created \cup {temp_dir}
           /\ fs' = MakeTemp(fs, temp_dir)
           /\ owned' = Append(owned, temp_dir)
           /\ execs' = Append(execs,
                  NewExec("compile", "exec", compile_cmd, temp_dir, FALSE))
           /\ supported_languages' =
                  AfterResolve(supported_languages, req.lang, "compile_cmd",
                               compile_cmd)
           /\ pc' = "spawn"
    /\ UNCHANGED <<app, parked, req, sink, result>>

\* the run command of an interpreted language: {file} replaced in a copy of
\* the template
ResolveRun(template, file_path) ==
    [i \in DOMAIN template |-> ReplaceArg(template[i], "{file}", file_path)]

\* _run_interpreted
_run_interpreted ==
    /\ pc = "_run_interpreted"
    /\ IF req.lang = "python"
       THEN /\ pc' = "_run_python_interactive"
            /\ execs' = execs
            /\ supported_languages' = supported_languages
       ELSE LET run_cmd == ResolveRun(supported_languages[req.lang].run_cmd,
                                      req.file)
            IN  /\ execs' = Append(execs,
                       NewExec("run", "exec", run_cmd, PathParent(req.file), FALSE))
                /\ supported_languages' =
                       AfterResolve(supported_languages, req.lang, "run_cmd",
                                    run_cmd)
                /\ pc' = "spawn"
    /\ UNCHANGED <<app, parked, fs, req, owned, created, sink, result>>

\* _run_python_interactive up to its Popen call: the file is read and
\* scanned for an input call
_run_python_interactive ==
    /\ pc = "_run_python_interactive"
    /\ IF req.file \notin fs.files
       THEN /\ result' = [success |-> FALSE,
                          error |-> <<"Failed to read file: ", "No such file">>]
            /\ pc' = "returned"
            /\ UNCHANGED <<execs, sink>>
       ELSE LET has_input == HasInputCall(SourceText(req.file))
                run_cmd == <<<<PythonExe>>, <<"-u">>, req.file>>
            IN  /\ sink' = IF has_input
                           THEN Show(sink, "warning",
                                     <<"Program contains input() - providing empty input for non-interactive execution">>)
                           ELSE sink
                /\ execs' = Append(execs,
                       NewExec("run", "pyi", run_cmd, PathParent(req.file), has_input))
                /\ pc' = "spawn"
                /\ result' = result
    /\ UNCHANGED <<app, parked, supported_languages, fs, req, owned, created>>

\* JavaCompileResult with a slip: a failed compile is reported in new words
JavaCompileResultReworded(r, file_name, temp_dir) ==
    IF r.success
    THEN [success |-> TRUE,
          compiled_files |-> <<PathJoin(temp_dir, file_name \o <<DOT, "class">>)>>,
          temp_dir |-> temp_dir]
    ELSE [success |-> FALSE, error |-> <<"Compilation failed">>]

\* what _compile_java returns for the outcome of javac
JavaCompileResult(r, file_name, temp_dir) ==
    IF r.success
    THEN [success |-> TRUE,
          compiled_files |-> <<PathJoin(temp_dir, file_name \o <<DOT, "class">>)>>,
          temp_dir |-> temp_dir]
    ELSE r

\* what _compile_compiled returns for the outcome of the compiler
NativeCompileResult(r, output_name, temp_dir) ==
    IF r.success
    THEN [success |-> TRUE,
          executable |-> PathJoin(temp_dir, output_name),
          temp_dir |-> temp_dir]
    ELSE r

\* the with block of a compile step is left: its temp directory is removed
LeaveCompileBlock(f, dirs) == RemoveTree(f, dirs[Len(dirs)])

\* whether _run_java / _run_compiled goes on to the run step
RunsAfterCompile(compile_result) == compile_result.success

\* the working directory of the run step of c / cpp
RunDirectory(executable) == PathParent(executable)

\* the record kept of the compile step once the run step begins: the locals
\* of its _execute_command are gone, its outcome has been replaced by
\* compile_result, and only a reader thread that is still running keeps its
\* pipe and its list
Retire(e, compile_result) ==
    LET out_done == e.stdout_thread # "running"
        err_done == e.stderr_thread # "running"
    IN  [e EXCEPT !.outcome = compile_result,
                  !.reads = {},
                  !.wrote_out = IF out_done THEN <<>> ELSE @,
                  !.output_lines = IF out_done THEN <<>> ELSE @,
                  !.wrote_err = IF err_done THEN <<>> ELSE @,
                  !.error_lines = IF err_done THEN <<>> ELSE @]

\* _compile_java from the return of _execute_command, and, when it was called
\* by _run_java, _run_java up to its call of _execute_command
_compile_java_returns ==
    /\ pc = "after"
    /\ req.lang = "java"
    /\ execs[Cur].step = "compile"
    /\ LET r == execs[Cur].outcome
           temp_dir == owned[Len(owned)]
           file_name == PathStem(CompileArg)
           compile_result == JavaCompileResult(r, file_name, temp_dir)
           left == LeaveCompileBlock(fs, owned)
           outer == SubSeq(owned, 1, Len(owned) - 1)
       IN  IF r.success /\ ~req.display
           THEN /\ Raise(fs, "'NoneType' object has no attribute 'show_info'")
                /\ UNCHANGED <<execs, sink>>
           ELSE /\ sink' = IF r.success
                           THEN Show(sink, "info",
                                     <<"Java compilation successful: ">>
                                         \o file_name \o <<DOT, "class">>)
                           ELSE sink
                /\ IF req.op = "run" /\ RunsAfterCompile(compile_result)
                   THEN /\ fs' = left
                        /\ owned' = outer
                        /\ execs' = Append(
                               [execs EXCEPT ![Cur] = Retire(@, compile_result)],
                               NewExec("run", "exec",
                                       <<<<"java">>, UnitName(req.file)>>,
                                       outer[1], FALSE))
                        /\ pc' = "spawn"
                        /\ result' = result
                   ELSE /\ Return(fs, compile_result)
                        /\ execs' = execs
    /\ UNCHANGED <<app, parked, supported_languages, req, created>>

\* _compile_compiled from the return of _execute_command, and, when it was
\* called by _run_compiled, _run_compiled up to its call of _execute_command
_compile_compiled_returns ==
    /\ pc = "after"
    /\ req.lang \in {"c", "cpp"}
    /\ execs[Cur].step = "compile"
    /\ LET r == execs[Cur].outcome
           temp_dir == owned[Len(owned)]
           output_name == PathStem(CompileArg)
           compile_result == NativeCompileResult(r, output_name, temp_dir)
           left == LeaveCompileBlock(fs, owned)
       IN  IF r.success /\ ~req.display
           THEN /\ Raise(fs, "'NoneType' object has no attribute 'show_info'")
                /\ UNCHANGED <<execs, sink>>
           ELSE /\ sink' = IF r.success
                           THEN Show(sink, "info",
                                     <<Upper(req.lang), " compilation successful: ">>
                                         \o output_name)
                           ELSE sink
                /\ IF req.op = "run" /\ RunsAfterCompile(compile_result)
                   THEN /\ fs' = left
                        /\ owned' = SubSeq(owned, 1, Len(owned) - 1)
                        /\ execs' = Append(
                               [execs EXCEPT ![Cur] = Retire(@, compile_result)],
                               NewExec("run", "exec",
                                       <<compile_result.executable>>,
                                       RunDirectory(compile_result.executable),
                                       FALSE))
                        /\ pc' = "spawn"
                        /\ result' = result
                   ELSE /\ Return(fs, compile_result)
                        /\ execs' = execs
    /\ UNCHANGED <<app, parked, supported_languages, req, created>>

\* the run step has returned: its outcome is the outcome of run_code
run_returns ==
    /\ pc = "after"
    /\ execs[Cur].step = "run"
    /\ Return(fs, execs[Cur].outcome)
    /\ UNCHANGED <<app, parked, supported_languages, req, created, execs,
                   sink>>

\* the caller has taken the outcome (_run_code_normal, compile_only): the
\* records of the call are dropped, and the next call can be made
caller_done ==
    /\ pc = "returned"
    /\ pc' = "idle"
    /\ req' = NoReq
    /\ created' = {}
    /\ execs' = <<>>
    /\ sink' = <<>>
    /\ result' = NoResult
    /\ UNCHANGED <<app, parked, supported_languages, fs, owned>>

\* ------------------------------------------------------ the specification
Next ==
    \/ \E f \in SourcePaths, l \in LanguageIds, d \in BOOLEAN : compile_code(f, l, d)
    \/ \E f \in SourcePaths, l \in LanguageIds, d \in BOOLEAN : run_code(f, l, d)
    \/ \E ok \in BOOLEAN : _run_java(ok)
    \/ \E ok \in BOOLEAN : _compile_java(ok)
    \/ _run_compiled
    \/ _compile_compiled
    \/ _run_interpreted
    \/ _run_python_interactive
    \/ \E installed \in BOOLEAN, oserror \in BOOLEAN : Popen(installed, oserror)
    \/ CloseStdin
    \/ StartThreads
    \/ WaitReturns
    \/ WaitTimeout
    \/ JoinStdout
    \/ JoinStderr
    \/ _compile_java_returns
    \/ _compile_compiled_returns
    \/ run_returns
    \/ caller_done
    \/ \E i \in 1..2, e \in BOOLEAN, l \in RawLines \cup {LauncherError} :
           ChildWrite(i, e, l)
    \/ \E i \in 1..2 : ChildRead(i)
    \/ \E i \in 1..2 : InheritedInputArrives(i)
    \/ \E i \in 1..2, c \in ExitCodes : ChildExit(i, c)
    \/ \E i \in 1..2, e \in BOOLEAN : read_output(i, e)

Spec == Init /\ [][Next]_vars

\* the runs of interpreted programs, with programs that write more lines
InterpretedLanguages == {"python", "javascript"}

NextStream ==
    \/ \E f \in InitialFiles, l \in InterpretedLanguages, d \in BOOLEAN :
           run_code(f, l, d)
    \/ _run_interpreted
    \/ _run_python_interactive
    \/ \E installed \in BOOLEAN, oserror \in BOOLEAN : Popen(installed, oserror)
    \/ CloseStdin
    \/ StartThreads
    \/ WaitReturns
    \/ WaitTimeout
    \/ JoinStdout
    \/ JoinStderr
    \/ run_returns
    \/ caller_done
    \/ \E e \in BOOLEAN, l \in StreamLines : ChildWriteLine(1, e, l)
    \/ \E c \in ExitCodes : ChildExit(1, c)
    \/ \E e \in BOOLEAN : read_output(1, e)

SpecStream == Init /\ [][NextStream]_vars

\* two calling threads: the scheduler takes the processor from the thread
\* that runs and gives it to the other, whose call goes on where it was; the
\* registry and the file system are the state the two share
Switch ==
    /\ parked # Context
    /\ pc' = parked.pc
    /\ req' = parked.req
    /\ owned' = parked.owned
    /\ created' = parked.created
    /\ execs' = parked.execs
    /\ sink' = parked.sink
    /\ result' = parked.result
    /\ parked' = Context
    /\ UNCHANGED <<app, supported_languages, fs>>

NextPair ==
    \/ compile_code(JavaSource, "java", TRUE)
    \/ compile_code(JavaSource, "c", TRUE)
    \/ \E ok \in BOOLEAN : _compile_java(ok)
    \/ _compile_compiled
    \/ Popen(TRUE, FALSE)
    \/ StartThreads
    \/ WaitReturns
    \/ JoinStdout
    \/ JoinStderr
    \/ _compile_java_returns
    \/ _compile_compiled_returns
    \/ caller_done
    \/ ChildWrite(1, TRUE, <<" ", "a", " ">>)
    \/ \E c \in ExitCodes : ChildExit(1, c)
    \/ \E e \in BOOLEAN : read_output(1, e)
    \/ Switch

SpecPair == Init /\ [][NextPair]_vars

\* ------------------------------------------- a run with supplied input
NEWLINE == "\n"
HASH == "#"
INPUT_CALL == "input("
CLOSE_PAREN == ")"
QUOTES == {"'", "\""}
PRINT_HELLO == "print(f'Hello, {name}!')"
EndOfInput == <<"EOFError">>

RECURSIVE FirstIndexOf(_, _, _)
\* str.find for one token: the least i >= from with s[i] = t, or 0
FirstIndexOf(s, t, from) ==
    IF from > Len(s) THEN 0
    ELSE IF s[from] = t THEN from ELSE FirstIndexOf(s, t, from + 1)

RECURSIVE SplitLines(_)
\* text.split('\n')
SplitLines(text) ==
    LET i == FirstIndexOf(text, NEWLINE, 1)
    IN  IF i = 0 THEN <<text>>
        ELSE <<SubSeq(text, 1, i - 1)>> \o SplitLines(SubSeq(text, i + 1, Len(text)))

RECURSIVE StripText(_)
\* str.strip() on a text whose whitespace tokens are " " and the newline
StripText(text) ==
    IF text # <<>> /\ Head(text) \in {" ", NEWLINE} THEN StripText(Tail(text))
    ELSE IF text # <<>> /\ text[Len(text)] \in {" ", NEWLINE}
    THEN StripText(SubSeq(text, 1, Len(text) - 1))
    ELSE text

\* input_lines = user_input.split('\n') if user_input.strip() else ['']
InputLines(user_input) ==
    IF StripText(user_input) # <<>> THEN SplitLines(user_input) ELSE <<<<>>>>

\* repr(value) of a str
Repr(value) == <<"'">> \o value \o <<"'">>

RECURSIVE ReplaceInput(_, _)
\* line.replace('input(', replacement)
ReplaceInput(line, replacement) ==
    IF line = <<>> THEN <<>>
    ELSE IF Head(line) = INPUT_CALL THEN replacement \o ReplaceInput(Tail(line), replacement)
    ELSE <<Head(line)>> \o ReplaceInput(Tail(line), replacement)

\* 'input(' in line and not line.strip().startswith('#')
IsInputLine(line) ==
    /\ HasInputCall(line)
    /\ ~(Strip(line) # <<>> /\ Head(Strip(line)) = HASH)

\* what an input line is rewritten to: the supplied line, or "" when the
\* supplied lines have run out, becomes the argument of the input call
RewriteLine(line, input_lines, input_count) ==
    IF input_count <= Len(input_lines)
    THEN ReplaceInput(line, <<INPUT_CALL>> \o Repr(input_lines[input_count])
                            \o <<CLOSE_PAREN, " ", HASH, " Original: ">>)
    ELSE ReplaceInput(line, <<INPUT_CALL, "\"", "\"", CLOSE_PAREN, " ", HASH,
                              " Original: ">>)

RECURSIVE RewriteLines(_, _, _)
\* the loop of _create_input_version; input_count counts the input lines
\* seen before lines[1]
RewriteLines(lines, input_lines, input_count) ==
    IF lines = <<>> THEN <<>>
    ELSE IF IsInputLine(lines[1])
    THEN <<RewriteLine(lines[1], input_lines, input_count + 1)>>
         \o RewriteLines(Tail(lines), input_lines, input_count + 1)
    ELSE <<lines[1]>> \o RewriteLines(Tail(lines), input_lines, input_count)

\* UMLCApp._create_input_version(content, user_input)
_create_input_version(content, user_input) ==
    JoinLines(NEWLINE, RewriteLines(SplitLines(content), InputLines(user_input), 0))

\* the texts of the editor and the texts typed into the input dialog
HelloScript == <<"name = ", INPUT_CALL, CLOSE_PAREN, NEWLINE, PRINT_HELLO>>
Scripts ==
    {HelloScript,
     <<"name = ", INPUT_CALL, "'", "Name: ", "'", CLOSE_PAREN, NEWLINE, PRINT_HELLO>>,
     <<"x = ", INPUT_CALL, CLOSE_PAREN, NEWLINE,
       "name = ", INPUT_CALL, CLOSE_PAREN, NEWLINE, PRINT_HELLO>>,
     <<" ", HASH, " ", INPUT_CALL, CLOSE_PAREN, NEWLINE,
       "name = ", INPUT_CALL, CLOSE_PAREN, NEWLINE, PRINT_HELLO>>,
     <<PRINT_HELLO, NEWLINE, "name = ", INPUT_CALL, CLOSE_PAREN>>}
UserInputs ==
    {<<"Alice">>, <<"Alice", NEWLINE, "Bob">>, <<"Alice", NEWLINE>>, <<" ">>, <<>>}

\* the part of a line python executes: what stands before the comment
CodePart(line) ==
    LET i == FirstIndexOf(line, HASH, 1)
    IN  IF i = 0 THEN line ELSE SubSeq(line, 1, i - 1)

\* the prompt of the input call of a line: its argument, without the quotes
Prompt(code) ==
    LET i == FirstIndexOf(code, INPUT_CALL, 1)
        j == FirstIndexOf(code, CLOSE_PAREN, i)
    IN  SelectSeq(SubSeq(code, i + 1, j - 1), LAMBDA t : t \notin QUOTES)

\* UMLCApp.run_code and _run_python_with_input up to the dialog's return:
\* the editor holds a python text with an input call, and the user types
\* user_input
_run_python_with_input(content, user_input) ==
    /\ app.pc = "editor"
    /\ HasInputCall(content)
    /\ app' = [pc |-> "dialog", content |-> content, user_input |-> user_input]
    /\ UNCHANGED <<core, parked>>

\* _create_temp_file_with_input: the rewritten text is written to the temp
\* file
_create_temp_file_with_input ==
    /\ app.pc = "dialog"
    /\ app' = [pc |-> "saved", content |-> app.content,
               user_input |-> app.user_input,
               temp |-> _create_input_version(app.content, app.user_input)]
    /\ UNCHANGED <<core, parked>>

\* compiler_manager.run_code on the temp file: _run_python_interactive reads
\* and scans it and starts python on it
StartScript ==
    /\ app.pc = "saved"
    /\ LET has_input == HasInputCall(app.temp)
           e == NewExec("run", "pyi", <<<<PythonExe>>, <<"-u">>>>, HomeDir, has_input)
       IN  app' = [pc |-> AfterPopen(e), content |-> app.content,
                   user_input |-> app.user_input, temp |-> app.temp,
                   stdin |-> PopenStdin(e),
                   lines |-> SplitLines(app.temp), next |-> 1,
                   name |-> <<>>, reads |-> <<>>, stdout |-> <<>>,
                   exit |-> 0, alive |-> TRUE]
    /\ UNCHANGED <<core, parked>>

\* process.stdin.close(), nothing having been written to the pipe
CloseScriptStdin ==
    /\ app.pc = "close_stdin"
    /\ app' = [app EXCEPT !.pc = "start_threads", !.stdin = "closed"]
    /\ UNCHANGED <<core, parked>>

\* python executes the next line of the temp file: an input call writes its
\* prompt and reads a line, which at end-of-input raises EOFError and ends
\* the script with status 1; the print writes its line
ScriptStep ==
    /\ app.pc \in {"close_stdin", "start_threads"}
    /\ app.alive
    /\ IF app.next > Len(app.lines)
       THEN app' = [app EXCEPT !.alive = FALSE, !.exit = 0, !.pc = "done"]
       ELSE LET code == CodePart(app.lines[app.next])
            IN  IF HasInputCall(code)
                THEN /\ app.stdin = "closed"
                     /\ app' = [app EXCEPT !.stdout = @ \o Prompt(code),
                                           !.reads = Append(@, EndOfInput),
                                           !.alive = FALSE, !.exit = 1,
                                           !.pc = "done"]
                ELSE IF \E i \in DOMAIN code : code[i] = PRINT_HELLO
                THEN app' = [app EXCEPT !.stdout = @ \o <<"Hello, ">> \o app.name
                                                      \o <<"!", NEWLINE>>,
                                        !.next = @ + 1]
                ELSE app' = [app EXCEPT !.next = @ + 1]
    /\ UNCHANGED <<core, parked>>

NextInput ==
    \/ \E c \in Scripts, u \in UserInputs : _run_python_with_input(c, u)
    \/ _create_temp_file_with_input
    \/ StartScript
    \/ CloseScriptStdin
    \/ ScriptStep

SpecInput == Init /\ [][NextInput]_vars

\* ------------------------------------------------------------- the claims
Terminal == {"Completed", "TimedOut", "SpawnFailed"}
CompiledLanguages == {"c", "cpp", "java"}

\* C1: the outcome of an executor invocation has success = TRUE exactly when
\* its child ended with status 0 and no timeout fired, whatever the child
\* wrote to stderr
C1_SuccessIffZeroExit ==
    \A i \in DOMAIN execs :
        LET e == execs[i]
        IN  e.state \in Terminal =>
                (e.outcome.success <=>
                    (e.spawned /\ e.state = "Completed" /\ e.returncode = 0))

\* a child that wrote a line to stderr and ended with status 0: success
C1_Witness ==
    \E i \in DOMAIN execs :
        /\ execs[i].state = "Completed"
        /\ execs[i].returncode = 0
        /\ execs[i].error_lines # <<>>
        /\ execs[i].outcome.success

\* C2: no invocation waits on a child process without a timeout (so that a
\* child that never ends is killed and a timed-out outcome returned)
C2_EveryWaitHasTimeout ==
    pc = "wait" => WaitHasTimeout(execs[Cur])

\* C3: when the run step of c / cpp calls Popen, the artifact and the temp
\* directory that holds it exist
C3_ArtifactExistsAtRun ==
    \A i \in DOMAIN execs :
        (req.lang \in {"c", "cpp"} /\ execs[i].step = "run"
            /\ execs[i].state # "Pending")
        => (execs[i].cwd_existed /\ execs[i].exe_existed)

\* C4: the run step of java is spawned in the directory the source was
\* compiled in, and the class file is in it
C4_ClassInRunDirectory ==
    \A i \in DOMAIN execs :
        (req.lang = "java" /\ execs[i].step = "run" /\ execs[i].spawned)
        => (execs[i].cwd = execs[1].cwd /\ execs[i].loaded)

\* the compile step of a run_code call has returned a failure outcome
CompileStepFailed ==
    /\ req.op = "run"
    /\ req.lang \in CompiledLanguages
    /\ execs # <<>>
    /\ execs[1].step = "compile"
    /\ execs[1].state \in Terminal
    /\ ~execs[1].outcome.success

CompilerProcesses ==
    {i \in DOMAIN execs : execs[i].step = "compile" /\ execs[i].spawned}

C6_UnitNameIsStem ==
    \A i \in DOMAIN execs :
        (req.lang = "java" /\ execs[i].step = "run")
        => /\ execs[i].cmd[1] = <<"java">>
           /\ execs[i].cmd[2] = PathStem(req.file)
           /\ execs[1].cmd[1] = <<"javac">>
           /\ execs[i].cmd[2] = PathStem(execs[1].cmd[2])

\* java is run for a source with two dots in its name that was compiled in
\* another directory than the one it came from and the one java runs in
C6_Witness ==
    /\ Len(execs) = 2
    /\ req.lang = "java"
    /\ req.file = InputSource
    /\ execs[2].state # "Pending"
    /\ PathParent(execs[1].cmd[2]) # PathParent(req.file)
    /\ PathParent(execs[1].cmd[2]) # execs[2].cwd

\* C7: once a call has returned, every temp directory it created is gone,
\* and between calls no temp directory exists
C7_TempDirsRemoved ==
    /\ Returned => created \cap fs.dirs = {}
    /\ pc \in {"idle", "returned"} => fs.dirs = {HomeDir}

\* a failed run_code call for java that had made both its temp directories
C7_Witness ==
    /\ Returned
    /\ Cardinality(created) = 2
    /\ ~result.success

\* C9: a child started for a source without a detected input call has its
\* standard input closed
C9_StdinClosedWithoutInput ==
    \A i \in DOMAIN execs :
        (execs[i].spawned /\ ~(execs[i].kind = "pyi" /\ execs[i].has_input))
        => execs[i].stdin = "closed"

\* C10: when an input call was detected, the child's input pipe is closed
\* before the threads are started and the child waited on, it stays closed,
\* and every read of the child gets end-of-input
C10_DetectedInputGetsEOF ==
    \A i \in DOMAIN execs :
        LET e == execs[i]
        IN  (e.kind = "pyi" /\ e.has_input /\ e.spawned)
            => /\ e.reads \subseteq {"EOF"}
               /\ e.state # "Spawning" => (e.stdin = "closed" /\ ~e.blocked)
               /\ pc \in {"start_threads", "wait", "join_stdout", "join_stderr"}
                      => e.stdin = "closed"

\* a child that began its read before the pipe was closed, and got
\* end-of-input
C10_Witness ==
    \E i \in DOMAIN execs :
        /\ execs[i].has_input
        /\ execs[i].state = "Draining"
        /\ execs[i].alive
        /\ execs[i].reads = {"EOF"}

\* the lines the user supplied
SuppliedLines ==
    IF StripText(app.user_input) # <<>> THEN SplitLines(app.user_input) ELSE <<>>

\* C8: the reads of the script return the supplied lines in order and then
\* end-of-input, and the hello script run with "Alice" prints Hello, Alice!
C8_SuppliedInputIsRead ==
    app.pc = "done" =>
        /\ \A k \in DOMAIN app.reads :
               app.reads[k] = IF k <= Len(SuppliedLines) THEN SuppliedLines[k]
                              ELSE EndOfInput
        /\ (app.content = HelloScript /\ app.user_input = <<"Alice">>)
           => \E k \in DOMAIN SplitLines(app.stdout) :
                  SplitLines(app.stdout)[k] = <<"Hello, ", "Alice", "!">>

\* the file system no call has touched
UntouchedFiles == [dirs |-> {HomeDir}, files |-> InitialFiles]

\* an outcome that says the language is unsupported
SaysUnsupported(outcome) ==
    /\ "error" \in DOMAIN outcome
    /\ outcome.error # <<>>
    /\ outcome.error[1] \in {"Unsupported language: ", "Unsupported language"}

\* C11: a call with a language id outside the five supported ones returns a
\* failure outcome that names the language, having started no process, made
\* no temp directory and sent nothing to the sink; a call with a supported id
\* never returns the unsupported-language outcome
C11_UnsupportedLanguage ==
    /\ (Returned /\ req.lang \notin Languages) =>
           /\ ~result.success
           /\ result.error = <<"Unsupported language: ", req.lang>>
           /\ execs = <<>>
           /\ created = {}
           /\ sink = <<>>
           /\ fs = UntouchedFiles
    /\ (Returned /\ req.lang \in Languages) => ~SaysUnsupported(result)
    /\ req.lang \notin Languages \cup {"none"} => Returned

\* run_code has returned for the language id ruby
C11_Witness ==
    /\ Returned
    /\ req.op = "run"
    /\ req.lang = "ruby"
    /\ ~result.success

\* a failure has happened inside the call in progress: the source is missing,
\* the spawn failed, the wait timed out, the child ended with a nonzero
\* status, or a reader thread failed while draining
FailureInside ==
    \/ req.op # "none" /\ req.file \notin fs.files
    \/ \E i \in DOMAIN execs :
           \/ execs[i].state \in {"SpawnFailed", "TimedOut"}
           \/ execs[i].state = "Completed" /\ execs[i].returncode # 0
           \/ "failed" \in {execs[i].stdout_thread, execs[i].stderr_thread}

\* C12: a call in which a failure has happened returns an outcome with
\* success = FALSE and a failure detail
C12_FailureGivesFailedOutcome ==
    [][(pc # "returned" /\ pc' = "returned" /\ FailureInside) =>
           /\ ~result'.success
           /\ "error" \in DOMAIN result'
           /\ result'.error # <<>>]_vars

\* an outcome that reports a command that was not found
SaysNotFound(outcome) ==
    /\ "error" \in DOMAIN outcome
    /\ outcome.error # <<>>
    /\ outcome.error[1] = "Command not found: "

\* C13: an executor invocation returns 'Command not found' exactly when the
\* first element of its command was not found, and the name it reports is
\* that element
C13_NotFoundNamesBinary ==
    \A i \in DOMAIN execs :
        LET e == execs[i]
        IN  e.state \in Terminal =>
                /\ SaysNotFound(e.outcome) <=> ~e.exe_existed
                /\ SaysNotFound(e.outcome) =>
                       e.outcome.error = <<"Command not found: ">> \o e.cmd[1]

RECURSIVE CapturedLines(_)
\* what read_output appends to its list for the raw lines it has read: each
\* stripped, the blank ones dropped; nothing from an undecodable line on
CapturedLines(raw) ==
    IF raw = <<>> \/ Head(raw) = UndecodableLine THEN <<>>
    ELSE (IF Strip(Head(raw)) # <<>> THEN <<Strip(Head(raw))>> ELSE <<>>)
         \o CapturedLines(Tail(raw))

\* the lines of a stream that its reader has taken from the pipe
LinesRead(wrote, pipe) == SubSeq(wrote, 1, Len(wrote) - Len(pipe))

\* the child of this invocation has ended with a nonzero status and the
\* outcome has been assembled
FailedExit(e) == e.state = "Completed" /\ e.returncode # 0

SinkTexts(kind) ==
    LET of_kind == SelectSeq(sink, LAMBDA m : m.kind = kind)
    IN  [k \in DOMAIN of_kind |-> of_kind[k].text]

\* C15: for each stream, the lines the sink has received are the non-blank
\* lines the stream's reader has read so far, in the order the child wrote
\* them, each once
C15_SinkOrderPerStream ==
    execs # <<>> =>
        LET e == execs[1]
        IN  IF req.display
            THEN /\ SinkTexts("output") = CapturedLines(LinesRead(e.wrote_out, e.pipe_out))
                 /\ SinkTexts("error") = CapturedLines(LinesRead(e.wrote_err, e.pipe_err))
            ELSE sink = <<>>

\* the child wrote b and then boom to its stderr, and the sink has received
\* both
C15_Witness ==
    /\ execs # <<>>
    /\ execs[1].wrote_err = <<<<"b", " ">>, <<" ", "boom">>>>
    /\ SinkTexts("error") = <<<<"b">>, <<"boom">>>>

\* the temp directories a calling thread holds open
Held(context) == {context.owned[k] : k \in DOMAIN context.owned}

\* the outcomes of a thread's executor invocations hold the lines of its own
\* children only: what the readers of that invocation had read of what that
\* child wrote, in order
OwnLinesOnly(context) ==
    \A i \in DOMAIN context.execs :
        LET e == context.execs[i]
        IN  (e.state = "Completed" /\ "error_output" \in DOMAIN e.outcome) =>
                /\ \E k \in 0..Len(e.wrote_err) :
                       e.outcome.error_output =
                           JoinLines("\n", CapturedLines(SubSeq(e.wrote_err, 1, k)))
                /\ \E k \in 0..Len(e.wrote_out) :
                       e.outcome.output =
                           JoinLines("\n", CapturedLines(SubSeq(e.wrote_out, 1, k)))
                /\ e.cwd \in context.created

C17_NothingAliveAfterFailure ==
    (Returned /\ ~result.success) =>
        \A i \in DOMAIN execs :
            /\ ~execs[i].alive
            /\ execs[i].stdout_thread # "running"
            /\ execs[i].stderr_thread # "running"

\* every executor invocation keeps its state or moves along one of the
\* edges, and an invocation that is new starts in Pending
StepsAlong(edges) ==
    /\ \A i \in DOMAIN execs \cap DOMAIN execs' :
           \/ execs'[i].state = execs[i].state
           \/ <<execs[i].state, execs'[i].state>> \in edges
    /\ \A i \in DOMAIN execs' \ DOMAIN execs : execs'[i].state = "Pending"

\* a call starts each of its steps at most once, and a child is spawned only
\* on the way from Pending to Spawning
NoRetry ==
    /\ \A s \in {"compile", "run"} :
           Cardinality({i \in DOMAIN execs' : execs'[i].step = s}) <= 1
    /\ \A i \in DOMAIN execs \cap DOMAIN execs' :
           execs'[i].spawned # execs[i].spawned =>
               (execs[i].state = "Pending" /\ execs'[i].state = "Spawning")

\* C18 as stated: every invocation goes Pending, Spawning, Draining and then
\* to one of Completed, TimedOut, SpawnFailed; a terminal state is final and
\* nothing is retried
C18_StatesInOrder ==
    [][/\ StepsAlong({<<"Pending", "Spawning">>, <<"Spawning", "Draining">>,
                      <<"Draining", "Completed">>, <<"Draining", "TimedOut">>,
                      <<"Draining", "SpawnFailed">>})
       /\ NoRetry]_vars

\* C18 as amended: an invocation whose spawn fails goes from Pending to
\* SpawnFailed; one whose spawn succeeds goes Pending, Spawning, Draining and
\* then to Completed or TimedOut; a terminal state is final and nothing is
\* retried
C18_StatesInOrderOrSpawnFailed ==
    [][/\ StepsAlong({<<"Pending", "Spawning">>, <<"Pending", "SpawnFailed">>,
                      <<"Spawning", "Draining">>,
                      <<"Draining", "Completed">>, <<"Draining", "TimedOut">>})
       /\ NoRetry]_vars

\* a call has returned after the spawn of its run step failed: the compile
\* step before it went through Draining to Completed, the run step went from
\* Pending to SpawnFailed with no thread started
C18_Witness ==
    /\ pc = "returned"
    /\ Len(execs) = 2
    /\ execs[1].state = "Completed" /\ execs[1].stdout_thread # "new"
    /\ execs[2].state = "SpawnFailed" /\ execs[2].stdout_thread = "new"
    /\ ~execs[2].spawned

\* C19: compile_code for python or javascript returns the success outcome
\* in the step that takes the call, and is a no-op: no process is spawned,
\* no temp directory is created, no file is read or written (the outcome is
\* the same for a source that does not exist), and the sink gets no message
C19_InterpretedCompileIsNoOp ==
    /\ (Returned /\ req.op = "compile"
            /\ req.lang \in {"python", "javascript"}) =>
           /\ result.success
           /\ result = [success |-> TRUE,
                        message |-> <<"No compilation needed for interpreted language">>]
           /\ execs = <<>>
           /\ created = {}
           /\ owned = <<>>
           /\ sink = <<>>
           /\ fs = UntouchedFiles
    /\ (req.op = "compile" /\ req.lang \in {"python", "javascript"}) =>
           Returned

\* compile_code has returned for a javascript source that does not exist
C19_Witness ==
    /\ Returned
    /\ req.op = "compile"
    /\ req.lang = "javascript"
    /\ req.file = MissingSource
    /\ req.file \notin fs.files
    /\ result.success

\* ------------------------------------------- one call after another
\* compile_only has its outcome and is started again: the caller keeps what
\* the call that has returned left (in parked) and is ready for the next call
NextCall ==
    /\ pc = "returned"
    /\ parked' = Context
    /\ pc' = "idle"
    /\ req' = NoReq
    /\ created' = {}
    /\ execs' = <<>>
    /\ sink' = <<>>
    /\ result' = NoResult
    /\ UNCHANGED <<app, supported_languages, fs, owned>>

NextAgain ==
    \/ \E l \in {"c", "java"}, d \in BOOLEAN : compile_code(JavaSource, l, d)
    \/ run_code(JavaSource, "javascript", TRUE)
    \/ _run_interpreted
    \/ run_returns
    \/ \E ok \in BOOLEAN : _compile_java(ok)
    \/ _compile_compiled
    \/ \E installed \in BOOLEAN, oserror \in BOOLEAN : Popen(installed, oserror)
    \/ StartThreads
    \/ WaitReturns
    \/ JoinStdout
    \/ JoinStderr
    \/ _compile_java_returns
    \/ _compile_compiled_returns
    \/ ChildWrite(1, TRUE, <<" ", "a", " ">>)
    \/ \E c \in ExitCodes : ChildExit(1, c)
    \/ \E e \in BOOLEAN : read_output(1, e)
    \/ NextCall

SpecAgain == Init /\ [][NextAgain]_vars

\* what the compiler of a call did, as far as the caller can tell: nothing
\* when it was never started, else how its invocation ended
Behaviour(xs) ==
    IF xs = <<>> THEN <<"never started">>
    ELSE <<xs[1].state, xs[1].spawned, xs[1].returncode>>

\* a compile_code call for c, cpp or java
Compiling == req.op = "compile" /\ req.lang \in {"c", "cpp", "java"}

\* the compiler works in a temp directory that this call created and that
\* holds no artifact when the compiler is started
FreshWorkspace ==
    \A i \in DOMAIN execs :
        /\ execs[i].step = "compile"
        /\ execs[i].cwd \in created
        /\ PathParent(Artifact(execs[i].cmd)) = execs[i].cwd
        /\ execs[i].state = "Pending" => Artifact(execs[i].cmd) \notin fs.files

\* two consecutive calls with the same arguments and the same compiler
\* behaviour have the same success flag
SameFlagAgain ==
    (/\ Returned
     /\ parked.pc = "returned"
     /\ parked.req = req
     /\ Behaviour(parked.execs) = Behaviour(execs)) =>
        parked.result.success = result.success

CallerStep ==
    \/ _run_interpreted
    \/ _run_python_interactive
    \/ \E installed \in BOOLEAN, oserror \in BOOLEAN : Popen(installed, oserror)
    \/ CloseStdin
    \/ StartThreads
    \/ WaitReturns
    \/ WaitTimeout
    \/ JoinStdout
    \/ JoinStderr
    \/ run_returns

\* interpreted runs in which nothing ever arrives on the application's own
\* input: a child that reads the inherited input stays blocked
NextBlocked ==
    \/ \E f \in InitialFiles, l \in InterpretedLanguages, d \in BOOLEAN :
           run_code(f, l, d)
    \/ CallerStep
    \/ caller_done
    \/ \E e \in BOOLEAN : ChildWrite(1, e, <<" ", "a", " ">>)
    \/ ChildRead(1)
    \/ \E c \in ExitCodes : ChildExit(1, c)
    \/ \E e \in BOOLEAN : read_output(1, e)

\* the calling thread keeps running, the 10 seconds of a wait with a timeout
\* and the second of a join pass; nothing is assumed of the reader threads
SpecBlocked == Init /\ [][NextBlocked]_vars /\ WF_vars(CallerStep)

\* the child of a python run reads the input it inherited, no input call
\* having been detected in the script
BlockedUndetected ==
    /\ execs # <<>>
    /\ execs[Cur].kind = "pyi"
    /\ ~execs[Cur].has_input
    /\ execs[Cur].stdin = "inherited"
    /\ execs[Cur].blocked

\* C21: a python run whose script blocks reading standard input, no input
\* call having been detected, reaches a terminal outcome: the wait times
\* out, the child is killed and the timed-out failure outcome is returned
C21_BlockedRunTimesOut ==
    BlockedUndetected ~>
        (/\ Returned
         /\ result = TimedOutOutcome
         /\ ~result.success
         /\ execs[Cur].state = "TimedOut"
         /\ ~execs[Cur].alive)

\* a python run of a script without a detected input call has returned the
\* timed-out outcome: the child had the inherited input, never finished a
\* read of it, wrote nothing, and was killed
C21_Witness ==
    /\ Returned
    /\ req.lang = "python"
    /\ result = TimedOutOutcome
    /\ execs[Cur].state = "TimedOut"
    /\ ~execs[Cur].has_input
    /\ execs[Cur].stdin = "inherited"
    /\ execs[Cur].reads = {}
    /\ execs[Cur].returncode = KilledCode
    /\ execs[Cur].wrote_out = <<>> /\ execs[Cur].wrote_err = <<>>

\* C22: once the call has returned its outcome the sink receives no further
\* output or error line of its invocations: what is still buffered is
\* discarded, and no reader thread delivers a line after the return
C22_NoLineAfterReturn ==
    [][(pc = "returned" /\ pc' = "returned") => sink' = sink]_vars

\* the child of the invocation in progress has exited while the calling thread
\* waits for it, and a reader thread has not finished
ExitedUndrained ==
    /\ execs # <<>>
    /\ pc = "wait"
    /\ ~execs[Cur].alive
    /\ \/ execs[Cur].stdout_thread = "running"
       \/ execs[Cur].stderr_thread = "running"

\* C23: a reader thread that never finishes does not keep the invocation from
\* detecting the exit of the child and returning: once the child has exited,
\* the invocation returns the outcome made of the return code and the lines
\* captured so far, whatever the readers do
C23_ExitDetectedDespiteReaders ==
    ExitedUndrained ~>
        (/\ execs # <<>>
         /\ pc = "after"
         /\ execs[Cur].state = "Completed"
         /\ execs[Cur].outcome = ExitOutcome(execs[Cur], execs[Cur].returncode))

\* an invocation has returned its outcome while its stdout reader had not
\* finished and a line the child wrote was still unread
C23_Witness ==
    /\ execs # <<>>
    /\ pc = "after"
    /\ execs[Cur].state = "Completed"
    /\ execs[Cur].stdout_thread = "running"
    /\ execs[Cur].pipe_out # <<>>
    /\ execs[Cur].outcome = ExitOutcome(execs[Cur], execs[Cur].returncode)

\* the invocations whose child was started in dir
StartedIn(dir) ==
    {i \in DOMAIN execs : execs[i].spawned /\ execs[i].cwd = dir}

SinkGot(kind) ==
    \/ sink' = sink
    \/ /\ Len(sink') = Len(sink) + 1
       /\ SubSeq(sink', 1, Len(sink)) = sink
       /\ sink'[Len(sink')].kind = kind

\* a step that appends to one line buffer of an invocation leaves the other
\* buffer and the other pipe alone and sends the sink only the message of
\* its own stream
BuffersApart ==
    \A i \in DOMAIN execs \cap DOMAIN execs' :
        /\ Len(execs'[i].output_lines) > Len(execs[i].output_lines) =>
               /\ execs'[i].error_lines = execs[i].error_lines
               /\ execs'[i].pipe_err = execs[i].pipe_err
               /\ SinkGot("output")
        /\ Len(execs'[i].error_lines) > Len(execs[i].error_lines) =>
               /\ execs'[i].output_lines = execs[i].output_lines
               /\ execs'[i].pipe_out = execs[i].pipe_out
               /\ SinkGot("error")

\* the invocations that become Completed in this step, i.e. whose outcome is
\* assembled from the return code and the two buffers
Assembled ==
    {i \in DOMAIN execs \cap DOMAIN execs' :
        execs[i].state # "Completed" /\ execs'[i].state = "Completed"}

Finished(t) == t \in {"done", "failed"}

Assembling == pc = "join_stderr" /\ pc' = "after"

\* a child that ended with status 0 and wrote nothing has the success
\* outcome with empty captured stdout and stderr
SilentSuccess(e, o) ==
    (e.returncode = 0 /\ e.wrote_out = <<>> /\ e.wrote_err = <<>>) =>
        o = [success |-> TRUE, output |-> <<>>, error_output |-> <<>>]

C27_RegistryUnchanged ==
    /\ supported_languages = InitialRegistry
    /\ DOMAIN supported_languages = {"python", "c", "cpp", "java", "javascript"}
    /\ supported_languages["c"].compile_cmd =
           <<<<"gcc">>, <<"{file}">>, <<"-o">>, <<"{output}">>>>
    /\ supported_languages["cpp"].compile_cmd =
           <<<<"g++">>, <<"{file}">>, <<"-o">>, <<"{output}">>>>
    /\ supported_languages["javascript"].run_cmd = <<<<"node">>, <<"{file}">>>>
    /\ \A i \in DOMAIN execs :
           /\ execs[i].cmd[1] = <<"gcc">> =>
                  (execs[i].cmd[2] = req.file
                   /\ execs[i].cmd[4] = PathJoin(execs[i].cwd, PathStem(req.file)))
           /\ execs[i].cmd[1] = <<"node">> => execs[i].cmd[2] = req.file

\* a second call in a row that resolves the compile template of c: the
\* command of each call holds the source path, the stored template its
\* placeholder
C27_Witness ==
    /\ parked.pc = "returned"
    /\ parked.req.lang = "c"
    /\ parked.execs # <<>>
    /\ parked.execs[1].cmd[2] = parked.req.file
    /\ req.lang = "c"
    /\ execs # <<>>
    /\ execs[1].cmd[2] = req.file
    /\ supported_languages["c"].compile_cmd[2] = <<"{file}">>

\* every child of the call ran to its end with status 0
AllChildrenSucceeded ==
    /\ execs # <<>>
    /\ \A i \in DOMAIN execs :
           execs[i].state = "Completed" /\ execs[i].returncode = 0

\* C28: a call with a null sink returns the success flag a call with a real
\* sink returns for the same behaviour of the children: when every child
\* ended with status 0 (in particular the compiler of a compile call) the
\* outcome has success = TRUE
C28_NullSinkSameOutcome ==
    (Returned /\ ~req.display /\ AllChildrenSucceeded) => result.success

\* C29: every outcome compile_code or run_code returns has a boolean success
\* field, and every outcome with success = FALSE also has an error text that
\* is not empty, whatever the return path, so that the caller's read of
\* result["error"] after a failure finds it
C29_FailureCarriesError ==
    Returned =>
        /\ "success" \in DOMAIN result
        /\ result.success \in BOOLEAN
        /\ ~result.success =>
               /\ "error" \in DOMAIN result
               /\ result.error # <<>>
               /\ \E k \in DOMAIN result.error : result.error[k] # ""

\* a python run has returned the timed-out outcome, whose error text names
\* the 10 seconds
C29_Witness ==
    /\ Returned
    /\ req.op = "run"
    /\ execs # <<>>
    /\ execs[Cur].state = "TimedOut"
    /\ ~result.success
    /\ result.error = <<"Program execution timed out (", "10", " seconds)">>

\* the invocations of the run step of the call
RunSteps(xs) == {i \in DOMAIN xs : xs[i].step = "run"}

\* the run-step process is spawned only when the compile-step process of the
\* call has exited with status 0 and its outcome has been assembled
RunSpawnedAfterCompile ==
    \A i \in RunSteps(execs) \cap DOMAIN execs' :
        (~execs[i].spawned /\ execs'[i].spawned /\ req.lang \in {"c", "cpp", "java"}) =>
            /\ execs[1].step = "compile"
            /\ execs[1].spawned
            /\ ~execs[1].alive
            /\ execs[1].returncode = 0
            /\ execs[1].state = "Completed"

\* a reader of the compile step delivers a line to the sink in this step
CompileLineDelivered ==
    /\ sink' # sink
    /\ \E i \in DOMAIN execs \cap DOMAIN execs' :
           /\ execs[i].step = "compile"
           /\ \/ Len(execs'[i].output_lines) > Len(execs[i].output_lines)
              \/ Len(execs'[i].error_lines) > Len(execs[i].error_lines)

\* the calling thread delivers the message of a successful compilation
InfoDelivered ==
    /\ Len(sink') = Len(sink) + 1
    /\ sink'[Len(sink')].kind = "info"

\* no line of the run step has been read
NoRunLineYet ==
    \A i \in RunSteps(execs) :
        execs[i].output_lines = <<>> /\ execs[i].error_lines = <<>>

====
